---- MODULE Spec2Model ----
(***************************************************************************)
(* Model of publications/models/publication.py: the author normalisation   *)
(* of Publication.__init__, the citation key of Publication.key and the    *)
(* key assignment of Publication.clean, over a store of persisted rows.    *)
(*                                                                         *)
(* A Python str is a sequence of one-character strings.  The fields of     *)
(* Publication that neither key() nor the author normalisation reads       *)
(* (keywords, title, journal, authors_list_simple, the format_* methods)   *)
(* are not part of the state.                                              *)
(***************************************************************************)
EXTENDS Integers, Sequences, FiniteSets, TLC

(***************************************************************************)
(* Python's str and list primitives, as the source uses them.              *)
(***************************************************************************)

\* string.ascii_uppercase
ascii_uppercase ==
    <<"A", "B", "C", "D", "E", "F", "G", "H", "I", "J", "K", "L", "M",
      "N", "O", "P", "Q", "R", "S", "T", "U", "V", "W", "X", "Y", "Z">>

ascii_lowercase ==
    <<"a", "b", "c", "d", "e", "f", "g", "h", "i", "j", "k", "l", "m",
      "n", "o", "p", "q", "r", "s", "t", "u", "v", "w", "x", "y", "z">>

\* the characters from 'a' (code 97) to '~' (code 126), in code order
FromLowerA ==
    ascii_lowercase \o <<"{", "|", "}", "~">>

Range(s) == {s[i] : i \in 1..Len(s)}

\* the characters c with c in ascii_uppercase
UppercaseLetters == Range(ascii_uppercase)

\* the lower-case letter of each upper-case letter
LowerOf ==
    [c \in UppercaseLetters |->
        ascii_lowercase[CHOOSE i \in 1..26 : ascii_uppercase[i] = c]]

Max(S) == CHOOSE x \in S : \A y \in S : y <= x

Min(S) == CHOOSE x \in S : \A y \in S : x <= y

\* s[i:i+len(p)] == p  (i is 1-based here)
StartsWithAt(s, i, p) ==
    /\ i + Len(p) - 1 <= Len(s)
    /\ SubSeq(s, i, i + Len(p) - 1) = p

RECURSIVE ReplaceFrom(_, _, _, _)
ReplaceFrom(s, i, old, new) ==
    IF i > Len(s) THEN <<>>
    ELSE IF StartsWithAt(s, i, old)
         THEN new \o ReplaceFrom(s, i + Len(old), old, new)
         ELSE <<s[i]>> \o ReplaceFrom(s, i + 1, old, new)

\* str.replace(old, new): every non-overlapping occurrence, left to right
replace(s, old, new) == ReplaceFrom(s, 1, old, new)

RECURSIVE SplitFrom(_, _, _, _)
SplitFrom(s, i, sep, cur) ==
    IF i > Len(s) THEN <<cur>>
    ELSE IF s[i] = sep
         THEN <<cur>> \o SplitFrom(s, i + 1, sep, <<>>)
         ELSE SplitFrom(s, i + 1, sep, Append(cur, s[i]))

\* str.split(sep) for a one-character separator: never an empty list
split(s, sep) == SplitFrom(s, 1, sep, <<>>)

\* str.strip(): the only whitespace of the model's alphabet is the space
strip(s) ==
    LET keep == {i \in 1..Len(s) : s[i] # " "}
    IN  IF keep = {} THEN <<>> ELSE SubSeq(s, Min(keep), Max(keep))

RECURSIVE join(_, _)
\* sep.join(list)
join(sep, list) ==
    IF Len(list) = 0 THEN <<>>
    ELSE IF Len(list) = 1 THEN list[1]
    ELSE list[1] \o sep \o join(sep, Tail(list))

\* str.find(c) for a one-character c: the 0-based index of the first c, or -1
find(s, c) ==
    LET hits == {i \in 1..Len(s) : s[i] = c}
    IN  IF hits = {} THEN -1 ELSE Min(hits) - 1

\* str.lower() on one character
LowerChar(c) == IF c \in UppercaseLetters THEN LowerOf[c] ELSE c

\* str.lower()
lower(s) == [i \in 1..Len(s) |-> LowerChar(s[i])]

\* the ORM's authors__icontains: a case-insensitive substring test
icontains(text, sub) ==
    LET haystack == lower(text)
        needle   == lower(sub)
    IN  \E i \in 1..(Len(text) + 1) : StartsWithAt(haystack, i, needle)

RECURSIVE str(_)
\* str(n) of a non-negative int: its decimal digits
str(n) ==
    LET digits == <<"0", "1", "2", "3", "4", "5", "6", "7", "8", "9">>
    IN  IF n < 10 THEN <<digits[n + 1]>>
        ELSE str(n \div 10) \o <<digits[(n % 10) + 1]>>

\* ord('a')
OrdLowerA == 97

\* chr(n), for the codes from ord('a') on
chr(n) == FromLowerA[n - OrdLowerA + 1]

(***************************************************************************)
(* Publication.__init__: the author normalisation.                         *)
(***************************************************************************)

suffixes ==
    { <<"I">>, <<"I", "I">>, <<"I", "I", "I">>, <<"I", "V">>, <<"V">>,
      <<"V", "I">>, <<"V", "I", "I">>, <<"V", "I", "I", "I">>,
      <<"J", "r", ".">>, <<"S", "r", ".">> }

prefixes == { <<"D", "r", ".">> }

prepositions ==
    { <<"v", "a", "n">>, <<"v", "o", "n">>, <<"d", "e", "r">>,
      <<"d", "e">>, <<"d", "e", "n">> }

\* "check if last string contains initials"
HasInitials(names) ==
    LET last == names[Len(names)]
    IN  /\ Len(last) <= 3
        /\ last \notin suffixes
        /\ \A i \in 1..Len(last) : last[i] \in UppercaseLetters

\* turn "Gauss CF" into "C. F. Gauss"
MoveInitials(names) ==
    IF HasInitials(names)
    THEN LET last == names[Len(names)]
         IN  [i \in 1..Len(last) |-> <<last[i], ".">>]
                 \o SubSeq(names, 1, Len(names) - 1)
    ELSE names

\* the number of suffixes at the end of names
num_suffixes(names) ==
    LET n == Len(names)
    IN  Max({k \in 0..n : \A j \in 1..k : names[n + 1 - j] \in suffixes})

\* the abbreviation of the name at index j (0-based, as enumerate gives it)
AbbreviateName(j, name) ==
    IF j = 0 /\ name \in prefixes THEN name
    ELSE IF j > 0 /\ name \in prepositions THEN name
    ELSE IF Len(name) > 2 \/ (Len(name) > 0 /\ name[Len(name)] # ".")
         THEN LET k == find(name, "-")
              IN  IF 0 < k + 1 /\ k + 1 < Len(name)
                  THEN <<name[1], ".", "-", name[k + 2], ".">>
                  ELSE <<name[1], ".">>
    ELSE name

\* the body of the loop over authors_list: the new authors_list[i]
ProcessAuthor(author) ==
    IF author = <<>> THEN author
    ELSE LET names == MoveInitials(split(author, " "))
             \* names[:-1 - num_suffixes]
             upto  == Max({0, Len(names) - 1 - num_suffixes(names)})
         IN  join(<<" ">>,
                  [j \in 1..Len(names) |->
                      IF j <= upto THEN AbbreviateName(j - 1, names[j])
                      ELSE names[j]])

\* the separators rewritten, in the order the source chains the replace calls
RewriteSeparators(authors) ==
    replace(replace(replace(replace(authors,
        <<",", " ", "a", "n", "d", " ">>, <<",", " ">>),
        <<",", "a", "n", "d", " ">>, <<",", " ">>),
        <<" ", "a", "n", "d", " ">>, <<",", " ">>),
        <<";">>, <<",">>)

\* "overwrite authors string"
OverwriteAuthors(authors_list) ==
    IF Len(authors_list) > 2
    THEN join(<<",", " ", "a", "n", "d", " ">>,
              << join(<<",", " ">>, SubSeq(authors_list, 1, Len(authors_list) - 1)),
                 authors_list[Len(authors_list)] >>)
    ELSE IF Len(authors_list) > 1
    THEN join(<<" ", "a", "n", "d", " ">>, authors_list)
    ELSE authors_list[1]

\* IsWrapped with the closing bracket mistyped
IsWrappedTypo(authors) ==
    /\ authors # <<>>
    /\ authors[1] = "{"
    /\ authors[Len(authors)] = "{"

\* "If the author name is wrapped in brackets, don't process"
IsWrapped(authors) ==
    /\ authors # <<>>
    /\ authors[1] = "{"
    /\ authors[Len(authors)] = "}"

\* the value of an attribute that __init__ did not set
Unset == <<"<unset>">>

\* what __init__ makes of the authors field: the rewritten authors, authors_list
\* and authors_bibtex
NormalizeAuthors(authors) ==
    IF IsWrapped(authors)
    THEN [authors        |-> authors,
          authors_list   |-> <<SubSeq(authors, 2, Len(authors) - 1)>>,
          authors_bibtex |-> Unset]
    ELSE LET rewritten == RewriteSeparators(authors)
             tokens    == split(rewritten, ",")
             list      == [i \in 1..Len(tokens) |-> ProcessAuthor(strip(tokens[i]))]
         IN  [authors        |-> OverwriteAuthors(list),
              authors_list   |-> list,
              authors_bibtex |-> join(<<" ", "a", "n", "d", " ">>, list)]

(***************************************************************************)
(* The state: the rows of the publications table, the instances that the   *)
(* request handlers hold in memory, and one authors string taken through   *)
(* construction and reload.                                                *)
(***************************************************************************)

VARIABLES
    store,      \* the persisted rows: [id, authors, year, month, citekey]
    next_id,    \* the table's next primary key
    inst,       \* handler -> the Publication instance it holds
    pc,         \* handler -> "idle", "constructed" (after __init__), "cleaned"
    scan,       \* handler -> "none", or what the key() call of its clean() has
                \* read: "fresh" (the table as it is now) or "stale"
    raw,        \* an authors string as entered
    first,      \* <<what __init__ makes of raw>>, once constructed
    second      \* <<what __init__ makes of the rewritten authors>>, once reloaded

vars == <<store, next_id, inst, pc, scan, raw, first, second>>

norm_vars == <<raw, first, second>>

\* the request handlers that may run at the same time
Handlers == {1, 2}

\* null=True: a citekey left blank
None == <<>>

\* the id of an instance that was never saved
NoId == 0

NoInstance == <<>>

\* Publication(...): models.Model.__init__ sets the fields, then the authors
\* are normalised
Publication(id, authors, year, month, citekey) ==
    LET n == NormalizeAuthors(authors)
    IN  [id             |-> id,
         authors        |-> n.authors,
         authors_list   |-> n.authors_list,
         authors_bibtex |-> n.authors_bibtex,
         year           |-> year,
         month          |-> month,
         citekey        |-> citekey]

\* an instance built from a row of a query result
from_db(row) ==
    Publication(row.id, row.authors, row.year, row.month, row.citekey)

\* the row that save() writes for an instance
RowOf(self, id) ==
    [id      |-> id,
     authors |-> self.authors,
     year    |-> self.year,
     month   |-> self.month,
     citekey |-> self.citekey]

(***************************************************************************)
(* Publication.key                                                         *)
(***************************************************************************)

\* authors_list[0].split(' ')[-1]
author_lastname(self) ==
    LET words == split(self.authors_list[1], " ")
    IN  words[Len(words)]

\* filter that also keeps only the rows of a month up to the record's own
filter_before(rows, self) ==
    {r \in rows : /\ r.year = self.year
                  /\ r.month <= self.month
                  /\ icontains(r.authors, author_lastname(self))}

\* Publication.objects.filter(year=self.year, authors__icontains=author_lastname)
filter(rows, self) ==
    {r \in rows : r.year = self.year /\ icontains(r.authors, author_lastname(self))}

\* the order of order_by('month', 'id')
OrderedBefore(r1, r2) ==
    \/ r1.month < r2.month
    \/ r1.month = r2.month /\ r1.id < r2.id

RECURSIVE order_by(_)
order_by(rows) ==
    IF rows = {} THEN <<>>
    ELSE LET head == CHOOSE r \in rows : \A o \in rows \ {r} : OrderedBefore(r, o)
         IN  <<head>> \o order_by(rows \ {head})

\* SamePublication by the value of the fields instead of the identity
SameByValue(publication, self) ==
    /\ publication.authors_list = self.authors_list
    /\ publication.year = self.year
    /\ publication.month = self.month

\* publication == self: Model.__eq__ compares the primary keys, and the key of
\* a row is never None
SamePublication(publication, self) == publication.id = self.id

RECURSIVE ScanFrom(_, _, _, _)
\* the loop over publications, from its i-th element on
ScanFrom(self, publications, i, char) ==
    IF i > Len(publications) THEN char
    ELSE LET publication == from_db(publications[i])
         IN  IF SamePublication(publication, self) THEN char
             ELSE IF author_lastname(publication) = author_lastname(self)
                  THEN ScanFrom(self, publications, i + 1, char + 1)
                  ELSE ScanFrom(self, publications, i + 1, char)

key(self, rows) ==
    LET publications == order_by(filter(rows, self))
        char         == ScanFrom(self, publications, 1, OrdLowerA)
    IN  author_lastname(self) \o str(self.year) \o <<chr(char)>>

(***************************************************************************)
(* Publication.clean, and the table                                        *)
(***************************************************************************)

\* clean that generates the key whether or not the record holds one
clean_always(self, rows) == [self EXCEPT !.citekey = key(self, rows)]

\* clean(): "if not self.citekey: self.citekey = self.key()"
clean(self, rows) ==
    IF self.citekey = None THEN [self EXCEPT !.citekey = key(self, rows)]
    ELSE self

\* the citekey column without unique=True
not_unique(row, rows) == TRUE

\* citekey = models.CharField(..., null=True, unique=True): the table takes no
\* row whose citekey another row holds
unique_citekey(row, rows) ==
    \/ row.citekey = None
    \/ \A r \in rows : r.id # row.id => r.citekey # row.citekey

\* the rows after save() of row: an UPDATE of the row of that id, or an INSERT;
\* an IntegrityError leaves the table as it was
saved(row, rows) ==
    IF unique_citekey(row, rows)
    THEN {r \in rows : r.id # row.id} \cup {row}
    ELSE rows

\* a change of the table makes what every handler's scan has read stale
Seen(rows) ==
    [h \in Handlers |-> IF rows # store /\ scan[h] = "fresh" THEN "stale" ELSE scan[h]]

(***************************************************************************)
(* The operations on records.                                              *)
(***************************************************************************)

\* a handler builds a new record from the submitted fields
Construct(h, authors, year, month, citekey) ==
    /\ pc[h] = "idle"
    /\ inst' = [inst EXCEPT ![h] = Publication(NoId, authors, year, month, citekey)]
    /\ pc' = [pc EXCEPT ![h] = "constructed"]
    /\ UNCHANGED <<store, next_id, scan, norm_vars>>

\* a handler loads a persisted row and sets the month of the record
Edit(h, row, month) ==
    /\ pc[h] = "idle"
    /\ row \in store
    /\ inst' = [inst EXCEPT ![h] = [from_db(row) EXCEPT !.month = month]]
    /\ pc' = [pc EXCEPT ![h] = "constructed"]
    /\ UNCHANGED <<store, next_id, scan, norm_vars>>

\* validation: clean()
Clean(h) ==
    /\ pc[h] = "constructed"
    /\ inst' = [inst EXCEPT ![h] = clean(inst[h], store)]
    /\ scan' = [scan EXCEPT ![h] = IF inst[h].citekey = None THEN "fresh" ELSE "none"]
    /\ pc' = [pc EXCEPT ![h] = "cleaned"]
    /\ UNCHANGED <<store, next_id, norm_vars>>

\* save(): the row is written, or refused by the unique constraint; the
\* request ends either way
Save(h) ==
    /\ pc[h] = "cleaned"
    /\ LET self == inst[h]
           row  == RowOf(self, IF self.id = NoId THEN next_id ELSE self.id)
           rows == saved(row, store)
       IN  /\ store' = rows
           /\ next_id' = IF self.id = NoId /\ row \in rows THEN next_id + 1 ELSE next_id
           /\ scan' = [Seen(rows) EXCEPT ![h] = "none"]
    /\ inst' = [inst EXCEPT ![h] = NoInstance]
    /\ pc' = [pc EXCEPT ![h] = "idle"]
    /\ UNCHANGED norm_vars

\* delete() of a persisted row
Delete(row) ==
    /\ row \in store
    /\ store' = store \ {row}
    /\ scan' = Seen(store \ {row})
    /\ UNCHANGED <<next_id, inst, pc, norm_vars>>

\* a record is constructed from the authors string as entered
NormConstruct ==
    /\ first = <<>>
    /\ first' = <<NormalizeAuthors(raw)>>
    /\ UNCHANGED <<store, next_id, inst, pc, scan, raw, second>>

\* the record is constructed again from the authors string that the first
\* construction has rewritten (a save and a load)
NormReload ==
    /\ first # <<>>
    /\ second = <<>>
    /\ second' = <<NormalizeAuthors(first[1].authors)>>
    /\ UNCHANGED <<store, next_id, inst, pc, scan, raw, first>>

\* the records not yet saved that may still take a new id
Pending == Cardinality({h \in Handlers : pc[h] # "idle" /\ inst[h].id = NoId})

StoreInit ==
    /\ store = {}
    /\ next_id = 1
    /\ inst = [h \in Handlers |-> NoInstance]
    /\ pc = [h \in Handlers |-> "idle"]
    /\ scan = [h \in Handlers |-> "none"]

NormIdle ==
    /\ raw = <<>>
    /\ first = <<>>
    /\ second = <<>>

(***************************************************************************)
(* Spec: one handler at a time creates, edits and deletes records.         *)
(***************************************************************************)

\* the table's ids stay below this
MaxId == 3

\* the fields a user submits: authors, year, month and, maybe, a citekey
Submissions ==
    { [authors |-> <<"J", " ", "L", "i">>, year |-> 2020, month |-> 1,
       citekey |-> None],
      [authors |-> <<"J", " ", "L", "i">>, year |-> 2020, month |-> 3,
       citekey |-> None],
      \* "M Lin" holds "Li" and is not "Li"; its user types a citekey
      [authors |-> <<"M", " ", "L", "i", "n">>, year |-> 2020, month |-> 1,
       citekey |-> <<"L", "i", "2", "0", "2", "0", "a">>],
      [authors |-> <<"J", " ", "L", "i">>, year |-> 2021, month |-> 1,
       citekey |-> None],
      \* the authors left empty
      [authors |-> <<>>, year |-> 2020, month |-> 1, citekey |-> None] }

\* the months an edit sets
Months == {1, 3}

Init == StoreInit /\ NormIdle

Next ==
    \/ \E sub \in Submissions :
          /\ next_id + Pending <= MaxId
          /\ Construct(1, sub.authors, sub.year, sub.month, sub.citekey)
    \/ \E row \in store, m \in Months : Edit(1, row, m)
    \/ Clean(1)
    \/ Save(1)
    \/ \E row \in store : Delete(row)

Spec == Init /\ [][Next]_vars

(***************************************************************************)
(* SpecRace: two handlers create records of one first author and year at   *)
(* the same time: their steps interleave.                                  *)
(***************************************************************************)

MaxRaceId == 3

RaceNext ==
    \/ \E h \in Handlers, m \in Months :
          /\ next_id + Pending <= MaxRaceId
          /\ Construct(h, <<"J", " ", "L", "i">>, 2020, m, None)
    \/ \E h \in Handlers : Clean(h)
    \/ \E h \in Handlers : Save(h)
    \/ \E row \in store : Delete(row)

SpecRace == Init /\ [][RaceNext]_vars

(***************************************************************************)
(* SpecBulk: many records of one first author and year.                    *)
(***************************************************************************)

MaxBulkId == 27

BulkNext ==
    \/ \E h \in Handlers :
          /\ next_id + Pending <= MaxBulkId
          /\ Construct(h, <<"J", " ", "L", "i">>, 2020, 1, None)
    \/ \E h \in Handlers : Clean(h)
    \/ \E h \in Handlers : Save(h)

SpecBulk == Init /\ [][BulkNext]_vars

(***************************************************************************)
(* SpecNorm: an authors string is constructed, then reloaded.              *)
(***************************************************************************)

\* an authors string is made of at most this many pieces
MaxPieces == 4

Pieces ==
    { <<"A", "B">>, <<"L", "i">>, <<"C", "a", "r", "l">>,
      <<" ">>, <<",">>, <<";">>, <<"a", "n", "d", " ">>,
      <<"{">>, <<"}">>, <<"-">>, <<"J", "r", ".">>, <<"v", "a", "n">> }

RECURSIVE StringsOf(_)
StringsOf(n) ==
    IF n = 0 THEN {<<>>}
    ELSE LET shorter == StringsOf(n - 1)
         IN  shorter \cup {s \o p : s \in shorter, p \in Pieces}

AuthorStrings == StringsOf(MaxPieces)

NormInit ==
    /\ StoreInit
    /\ raw \in AuthorStrings
    /\ first = <<>>
    /\ second = <<>>

NormNext == NormConstruct \/ NormReload

SpecNorm == NormInit /\ [][NormNext]_vars

(***************************************************************************)
(* The claims.                                                             *)
(***************************************************************************)

\* C1 (Spec): no two persisted publications carry the same citekey.
C1_UniqueCitekeys ==
    \A r1 \in store, r2 \in store : r1.id # r2.id => r1.citekey # r2.citekey

\* a new record whose generated citekey a persisted row already holds is about
\* to be saved, next to two persisted rows
C1_Witness ==
    /\ Cardinality(store) >= 2
    /\ pc[1] = "cleaned"
    /\ inst[1].id = NoId
    /\ scan[1] = "fresh"
    /\ \E r \in store : r.citekey = inst[1].citekey

\* C2 (Spec): key() of a persisted record is surname + year + the letter whose
\* offset from 'a' is the number of persisted records of its year and
\* first-author surname that precede it by (month, id); the keys of such
\* records are pairwise distinct.
C2_KeyIsOrdinal ==
    LET \* each persisted row, loaded, with its surname and its key()
        keyed == {[row     |-> row,
                   surname |-> author_lastname(from_db(row)),
                   key     |-> key(from_db(row), store)] : row \in store}
        Sibling(p, q) == q.row.year = p.row.year /\ q.surname = p.surname
    IN  \A p \in keyed :
            LET preceding ==
                    {q \in keyed :
                        /\ Sibling(p, q)
                        /\ \/ q.row.month < p.row.month
                           \/ q.row.month = p.row.month /\ q.row.id < p.row.id}
            IN  /\ p.key = p.surname \o str(p.row.year)
                               \o <<ascii_lowercase[Cardinality(preceding) + 1]>>
                /\ \A q \in keyed :
                       Sibling(p, q) /\ q.row.id # p.row.id => q.key # p.key

\* three rows of one year and surname, of months 1, 3, 3, whose keys are
\* Li2020a, Li2020b, Li2020c
C2_Witness ==
    \E r1 \in store, r2 \in store, r3 \in store :
        /\ r1.month = 1 /\ r2.month = 3 /\ r3.month = 3 /\ r2.id < r3.id
        /\ r1.year = 2020 /\ r2.year = 2020 /\ r3.year = 2020
        /\ key(from_db(r1), store) = <<"L", "i", "2", "0", "2", "0", "a">>
        /\ key(from_db(r2), store) = <<"L", "i", "2", "0", "2", "0", "b">>
        /\ key(from_db(r3), store) = <<"L", "i", "2", "0", "2", "0", "c">>

\* two handlers hold new records of one year and first-author surname, and
\* the clean() of each has scanned the table as it is now: neither is saved
C3_BothScanned(h1, h2) ==
    /\ h1 # h2
    /\ pc[h1] = "cleaned" /\ pc[h2] = "cleaned"
    /\ scan[h1] = "fresh" /\ scan[h2] = "fresh"
    /\ inst[h1].id = NoId /\ inst[h2].id = NoId
    /\ inst[h1].year = inst[h2].year
    /\ author_lastname(inst[h1]) = author_lastname(inst[h2])

\* C3 (SpecRace): when two creations of one year and first-author surname both
\* scan before either is persisted, both compute the same citekey.
C3_RaceSameKey ==
    \A h1 \in Handlers, h2 \in Handlers :
        C3_BothScanned(h1, h2) => inst[h1].citekey = inst[h2].citekey

\* the interleaving happens, over a table that holds a sibling, for records
\* of different months
C3_Witness ==
    /\ C3_BothScanned(1, 2)
    /\ inst[1].citekey = inst[2].citekey
    /\ inst[1].month # inst[2].month
    /\ store # {}

\* the letters a..z
C4_Letters == Range(ascii_lowercase)

\* C4 (SpecBulk): every key that key generation returns ends in a letter of
\* a..z.
C4_KeyEndsInLetter ==
    \A h \in Handlers :
        pc[h] = "cleaned" /\ scan[h] # "none" =>
            inst[h].citekey[Len(inst[h].citekey)] \in C4_Letters

\* C5 (Spec): clean() on a record without author entries assigns no citekey.
C5_NoKeyWithoutAuthors ==
    \A h \in Handlers :
        pc[h] = "cleaned" /\ inst[h].authors = <<>> /\ scan[h] # "none" =>
            inst[h].citekey = None

\* C6 (Spec): clean() leaves the citekey of a record that holds one unchanged.
C6_CleanKeepsCitekey ==
    [][\A h \in Handlers :
          pc[h] = "constructed" /\ pc'[h] = "cleaned" /\ inst[h].citekey # None
              => inst'[h].citekey = inst[h].citekey]_vars

\* clean() has run on a persisted record whose citekey is not the one key()
\* gives it over the table as it is now
C6_Witness ==
    /\ pc[1] = "cleaned"
    /\ scan[1] = "none"
    /\ inst[1].id # NoId
    /\ \E r \in store : r.id = inst[1].id
    /\ key(inst[1], store) # inst[1].citekey

\* the authors string has no dash and no bracket
C7_Plain(s) == \A i \in 1..Len(s) : s[i] \notin {"-", "{", "}"}

\* C7 (SpecNorm): constructing a record from the authors string that a first
\* construction has rewritten gives the same authors_list, authors_bibtex and
\* authors.
C7_Idempotent ==
    second # <<>> /\ C7_Plain(raw) => second[1] = first[1]

\* the comma-separated tokens of an authors string that are not blank
C8_Tokens(s) ==
    LET tokens == split(RewriteSeparators(s), ",")
    IN  {i \in 1..Len(tokens) : strip(tokens[i]) # <<>>}

\* C8 (SpecNorm): authors_list has no empty entry, and as many entries as the
\* input has tokens that are not blank.
C8_NoBlankEntries ==
    first # <<>> /\ ~ IsWrapped(raw) /\ C8_Tokens(raw) # {} =>
        /\ \A i \in 1..Len(first[1].authors_list) : first[1].authors_list[i] # <<>>
        /\ Len(first[1].authors_list) = Cardinality(C8_Tokens(raw))

\* the authors string starts with '{' and ends with '}'
C9_Escaped(s) == Len(s) >= 1 /\ Head(s) = "{" /\ s[Len(s)] = "}"

\* C9 (SpecNorm): an authors string wrapped in braces gives the one-entry
\* authors_list of its interior and is stored as it is; a reload gives the same.
C9_EscapedLiteral ==
    C9_Escaped(raw) =>
        /\ first # <<>> =>
              /\ first[1].authors_list = <<SubSeq(raw, 2, Len(raw) - 1)>>
              /\ first[1].authors = raw
        /\ second # <<>> => second = first

\* a wrapped string is reloaded whose interior holds a separator and would not
\* be left as it is without the brackets
C9_Witness ==
    /\ second # <<>>
    /\ C9_Escaped(raw)
    /\ \E i \in 1..Len(raw) : raw[i] = ","
    /\ LET interior == SubSeq(raw, 2, Len(raw) - 1)
       IN  NormalizeAuthors(interior).authors_list # <<interior>>

\* C10 (SpecNorm): replacing each ';' by ',' in the authors string does not
\* change the result of the normalisation.
C10_SemicolonIsComma ==
    first # <<>> /\ ~ IsWrapped(raw) =>
        first[1] = NormalizeAuthors(replace(raw, <<";">>, <<",">>))

====
